---- MODULE Spec2Model ----
(***************************************************************************)
(* Model of the LCD previewer's adaptation layer:                          *)
(*   - MenuLCDBridge (src/lcd_preview/menulcd_bridge.py): the hosted       *)
(*     instance, the ordered-candidate dispatch of the actions, reload;    *)
(*   - RepoWatcher (src/lcd_preview/watcher.py): the notification source,  *)
(*     the flush loop thread(s), start/stop;                               *)
(*   - the wiring of the two in MainWindow (src/app.py).                   *)
(*                                                                         *)
(* A hosted instance is described by its shape: the set of method names it *)
(* exposes and the subset of those whose call raises.  A nested LCD method *)
(* is the name "LCD.<method>".                                             *)
(***************************************************************************)
EXTENDS Integers, Sequences, FiniteSets, TLC

VARIABLES
    \* ---- MenuLCDBridge ----
    instance,      \* self.instance: id of the hosted instance (0 = None)
    exposes,       \* method names the instance held in self.instance exposes
    raises,        \* those of them whose call raises
    errors,        \* self.errors
    last_frame,    \* self._last_frame: id of the instance it came from (0 = None)
    nextId,        \* identity of the next object ci.menu yields
    hostedNames,   \* the names hosted modules of this run may expose
    \* ---- what the last Bridge operation did (observation only) ----
    lastOp,        \* name of the last public operation called
    calls,         \* hosted methods it invoked, in order: <<instance id, name, argument>>
    pushed,        \* messages it appended to self.errors
    propagated,    \* TRUE iff it raised to its caller
    before,        \* self.instance when it was called
    built          \* id the last construction installed (0 when it installed none)

VARIABLES
    \* ---- MenuLCDBridge: configuration and frames ----
    display_profile, \* self.display_profile ("" = None)
    repo_path,       \* self.repo_path
    native_size,     \* self._native_size
    size,            \* <<width, height>> of the framebuffer of the instance in self.instance
    pixels,          \* per hosted instance: the content of its framebuffer object
    held,            \* the frame the last get_frame() handed out, with its content then
    hostedSizes,     \* the framebuffer sizes hosted modules of this run may have
    hostedDraws,     \* hosted render methods of this run redraw their framebuffer
    result,          \* what the last Bridge operation returned, raised and wrote
    out              \* pop_errors in progress: its local copy of the log (line 238)

VARIABLES
    \* ---- the process the Bridge runs in ----
    sys_argv,        \* sys.argv
    cwd,             \* os.getcwd()
    sys_modules,     \* sys.modules: what it holds for RPi.GPIO, mido and
                     \* lib.platform's Hotspot
    hostedHotspot,   \* the hosted lib.platform of this run defines Hotspot
    made             \* repository and profile the instance in self.instance was
                     \* constructed with (observation only)

VARIABLES
    \* ---- the pin emulator (stubs_gpio.py) the Bridge installs as RPi.GPIO ----
    gpio_callbacks,  \* _callbacks: channel -> registered edge callback
    gpio_edges,      \* _channel_edges: channel -> edge kind
    gpio_pin_state,  \* _pin_state: channel -> level
    gpio_pin_dir,    \* _pin_dir: channel -> direction
    simulated,       \* what the last simulate_edge() call did (observation only)
    gpio_op,         \* the last call of the emulator: <<name, channel>> (observation only)
    written          \* per channel, the level last written since the channel was
                     \* last cleared, -1 if none (observation only)

VARIABLES
    \* ---- RepoWatcher ----
    is_running,    \* self.is_running
    stopFlag,      \* self._stop (the Event) is set
    obs,           \* self._obs is a started Observer that still delivers events
    thr,           \* self._thr: the flush-loop thread start() created last (0 = None)
    changed,       \* self._changed
    pc,            \* per flush-loop thread: where it is in _debounce_loop
    sinceFlush,    \* per thread: ms elapsed since its last_flush, saturating
    slept,         \* per thread: its time.sleep(0.05) has elapsed
    payload,       \* per thread: its local list `changed`
    main,          \* what the UI (render) thread, which also calls start/stop, is doing
    startsLeft,    \* start() calls still explored in this run
    eventsLeft,    \* filesystem events still explored in this run
    \* ---- observation of the watcher ----
    sinceEvent,    \* ms elapsed since the last reported event, saturating
    bursts,        \* bursts of events reported since start()
    clean,         \* no two consecutive events were exactly the debounce interval apart
    callbacks,     \* on_change invocations started since start()
    awaiting,      \* paths reported since start() and in no payload handed to on_change since
    cbAfterStop,   \* on_change invocations started since the last stop request
    joinTimedOut   \* the last stop()'s join of the flush loop timed out

\* What only a construction changes.
procVars == <<sys_argv, cwd, sys_modules, made>>

\* Configuration that only set_repo / set_display_profile change, and what
\* only the constructions they start change.
cfgVars == <<display_profile, repo_path, hostedSizes, hostedDraws, hostedHotspot, procVars>>

bridgeVars == <<instance, exposes, raises, errors, last_frame, nextId, hostedNames,
                lastOp, calls, pushed, propagated, before, built,
                cfgVars, native_size, size, pixels, held, result, out,
                gpio_callbacks, gpio_edges, gpio_pin_state, gpio_pin_dir, simulated,
                gpio_op, written>>

gpioVars == <<gpio_callbacks, gpio_edges, gpio_pin_state, gpio_pin_dir, simulated,
              gpio_op, written>>

watcherVars == <<is_running, stopFlag, obs, thr, changed, pc, sinceFlush, slept, payload,
                 main, startsLeft, eventsLeft>>

watcherObs == <<sinceEvent, bursts, clean, callbacks, awaiting, cbAfterStop, joinTimedOut>>

vars == <<bridgeVars, watcherVars, watcherObs>>

----------------------------------------------------------------------------
\* Bounds of the model.

\* A hosted instance exposes at most this many of the probed names.
MaxExposed == 2
\* Hosted instances constructed in one run (the first one included).
MaxInstances == 2
\* Operations are explored while the error log holds at most this many entries.
MaxErrLog == 0

----------------------------------------------------------------------------
\* The candidate tables of the Bridge.

\* action_home's repeat count, menulcd_bridge.py:197
HomeBackRepeats == 5

UpFallbacks    == <<"button_up", "on_up", "nav_up", "up">>
DownFallbacks  == <<"button_down", "on_down", "nav_down", "down">>
LeftFallbacks  == <<"button_left", "on_left", "nav_left", "left">>
RightFallbacks == <<"button_right", "on_right", "nav_right", "right">>
EnterFallbacks == <<"button_enter", "on_enter", "select", "enter", "ok">>
BackFallbacks  == <<"button_back", "on_back", "back", "cancel">>
HomeCandidates == <<"home", "go_home", "to_root", "menu_home">>
EncoderCandidates == <<"encoder", "on_encoder", "rotate", "on_rotate">>
RenderNames == <<"render", "draw", "update", "tick", "loop", "paint", "display",
                 "refresh", "render_menu", "renderMenu">>
LcdRenderNames == <<"LCD.display", "LCD.refresh", "LCD.show", "LCD.update",
                    "LCD.LCD_Display", "LCD.LCD_Show">>
FrameAccessors == <<"get_frame", "get_framebuffer", "framebuffer", "image", "frame">>

NavActions == {"action_up", "action_down", "action_left", "action_right",
               "action_enter", "action_back"}

\* The semantic primary method of a navigation action, its argument, and
\* the message logged when it raises.
Primary(a) ==
    CASE a = "action_up"    -> <<"change_pointer", "-1", "change_pointer(-1) error">>
      [] a = "action_down"  -> <<"change_pointer", "1", "change_pointer(1) error">>
      [] a = "action_left"  -> <<"change_value", "LEFT", "change_value('LEFT') error">>
      [] a = "action_right" -> <<"change_value", "RIGHT", "change_value('RIGHT') error">>
      [] a = "action_enter" -> <<"enter_menu", "", "enter_menu() error">>
      [] a = "action_back"  -> <<"go_back", "", "go_back() error">>

Fallbacks(a) ==
    CASE a = "action_up"    -> UpFallbacks
      [] a = "action_down"  -> DownFallbacks
      [] a = "action_left"  -> LeftFallbacks
      [] a = "action_right" -> RightFallbacks
      [] a = "action_enter" -> EnterFallbacks
      [] a = "action_back"  -> BackFallbacks

\* The resolution list of a navigation action: primary, fallbacks, generic.
Resolution(a) == <<Primary(a)[1]>> \o Fallbacks(a) \o <<"handle_key">>

Range(s) == {s[i] : i \in DOMAIN s}

----------------------------------------------------------------------------
\* Hosted instances.

WellFormed(s) == s.raises \subseteq s.exposes /\ Cardinality(s.exposes) <= MaxExposed

Shapes(names) ==
    {s \in [exposes : SUBSET names, raises : SUBSET names] : WellFormed(s)}

\* s with method n removed (status 0), exposed (1) or exposed and raising (2).
WithMethod(s, n, status) ==
    [exposes |-> IF status = 0 THEN s.exposes \ {n} ELSE s.exposes \cup {n},
     raises  |-> IF status = 2 THEN s.raises \cup {n} ELSE s.raises \ {n}]

\* The shapes an edit of at most one method of the hosted module's source yields.
Edits(s, names) ==
    {t \in {WithMethod(s, n, st) : n \in names, st \in 0..2} : WellFormed(t)}

Host(id, s) == [id |-> id, exposes |-> s.exposes, raises |-> s.raises]
Current == [id |-> instance, exposes |-> exposes, raises |-> raises]

----------------------------------------------------------------------------
\* Results of (parts of) an operation: the hosted calls made, the messages
\* pushed, whether an exception leaves it, and its return value.

\* exc is the type of the exception that leaves ("" when none does); acts
\* lists the Bridge's own action methods entered.
Result(c, e, x, r) ==
    [calls |-> c, errs |-> e, raised |-> x, ret |-> r,
     exc |-> IF x THEN "Exception" ELSE "", acts |-> <<>>]
Nothing == Result(<<>>, <<>>, FALSE, FALSE)

\* raise kind(...)
Raise(kind) == [Result(<<>>, <<>>, TRUE, FALSE) EXCEPT !.exc = kind]

\* Sequential composition: r2 runs only if r1 did not raise.
Then(r1, r2) ==
    IF r1.raised THEN r1
    ELSE [calls |-> r1.calls \o r2.calls, errs |-> r1.errs \o r2.errs,
          raised |-> r2.raised, ret |-> r2.ret, exc |-> r2.exc,
          acts |-> r1.acts \o r2.acts]

\* r, entered through the Bridge's action method a.
Entered(a, r) == [r EXCEPT !.acts = <<a>> \o r.acts]

RECURSIVE Repeat(_, _)
Repeat(n, r) == IF n <= 0 THEN Nothing ELSE Then(r, Repeat(n - 1, r))

\* MenuLCDBridge._call_if_exists, from candidate i on.
RECURSIVE call_candidates(_, _, _, _, _)
call_candidates(h, candidates, arg, swallow, i) ==
    IF i > Len(candidates)
    THEN IF "handle_key" \in h.exposes /\ Len(candidates) > 0
         THEN IF "handle_key" \notin h.raises
              THEN Result(<< <<h.id, "handle_key", candidates[1]>> >>, <<>>, FALSE, TRUE)
              ELSE Result(<< <<h.id, "handle_key", candidates[1]>> >>,
                          <<"handle_key error">>, ~swallow, FALSE)
         ELSE Nothing
    ELSE LET name == candidates[i] IN
         IF name \in h.exposes
         THEN IF name \notin h.raises
              THEN Result(<< <<h.id, name, arg>> >>, <<>>, FALSE, TRUE)
              ELSE Then(Result(<< <<h.id, name, arg>> >>, <<name \o " error">>,
                               ~swallow, FALSE),
                        call_candidates(h, candidates, arg, swallow, i + 1))
         ELSE call_candidates(h, candidates, arg, swallow, i + 1)

call_if_exists(h, candidates, arg, swallow) ==
    call_candidates(h, candidates, arg, swallow, 1)

\* The six navigation actions (the definitions in force, lines 397-461):
\* the primary method first; if it is absent or raises, _call_if_exists.
nav_action(h, a) ==
    LET p == Primary(a)[1]
        arg == Primary(a)[2]
        rest == call_if_exists(h, Fallbacks(a), "", FALSE)
    IN  Entered(a,
          IF p \in h.exposes
          THEN IF p \notin h.raises
               THEN Result(<< <<h.id, p, arg>> >>, <<>>, FALSE, FALSE)
               ELSE Then(Result(<< <<h.id, p, arg>> >>, <<Primary(a)[3]>>, FALSE, FALSE),
                         rest)
          ELSE rest)

action_home(h) ==
    LET d == call_if_exists(h, HomeCandidates, "", TRUE) IN
    Entered("action_home",
      IF d.ret THEN d ELSE Then(d, Repeat(HomeBackRepeats, nav_action(h, "action_back"))))

DeltaArg(delta) ==
    CASE delta = -2 -> "-2" [] delta = -1 -> "-1" [] delta = 0 -> "0"
      [] delta = 1 -> "1" [] delta = 2 -> "2" [] OTHER -> "n"

action_encoder(h, delta) ==
    LET d == call_if_exists(h, EncoderCandidates, DeltaArg(delta), TRUE) IN
    Entered("action_encoder",
      IF d.ret THEN d
      ELSE IF delta > 0 THEN Then(d, Repeat(delta, nav_action(h, "action_down")))
      ELSE IF delta < 0 THEN Then(d, Repeat(-delta, nav_action(h, "action_up")))
      ELSE d)

\* The loops of step without the return of lines 159 and 170: every callable
\* candidate is called.
RECURSIVE try_render_all(_, _, _)
try_render_all(h, names, i) ==
    IF i > Len(names) THEN Nothing
    ELSE IF names[i] \in h.exposes
         THEN LET rest == try_render_all(h, names, i + 1) IN
              IF names[i] \notin h.raises
              THEN [Then(Result(<< <<h.id, names[i], "">> >>, <<>>, FALSE, FALSE), rest)
                       EXCEPT !.ret = TRUE]
              ELSE Then(Result(<< <<h.id, names[i], "">> >>,
                               <<names[i] \o "() error">>, FALSE, FALSE), rest)
         ELSE try_render_all(h, names, i + 1)

\* MenuLCDBridge.step: the first render candidate that returns ends the step.
RECURSIVE try_render(_, _, _)
try_render(h, names, i) ==
    IF i > Len(names) THEN Nothing
    ELSE IF names[i] \in h.exposes
         THEN IF names[i] \notin h.raises
              THEN Result(<< <<h.id, names[i], "">> >>, <<>>, FALSE, TRUE)
              ELSE Then(Result(<< <<h.id, names[i], "">> >>,
                               <<names[i] \o "() error">>, FALSE, FALSE),
                        try_render(h, names, i + 1))
         ELSE try_render(h, names, i + 1)

step(h) ==
    IF h.id = 0 THEN Nothing
    ELSE LET a == try_render(h, RenderNames, 1) IN
         IF a.ret THEN a ELSE Then(a, try_render(h, LcdRenderNames, 1))

\* MenuLCDBridge._extract_frame over the callable accessors: ret is TRUE iff
\* an accessor returned an image; an accessor that raises is skipped.
RECURSIVE try_accessors(_, _)
try_accessors(h, i) ==
    IF i > Len(FrameAccessors) THEN Nothing
    ELSE IF FrameAccessors[i] \in h.exposes
         THEN IF FrameAccessors[i] \notin h.raises
              THEN Result(<< <<h.id, FrameAccessors[i], "">> >>, <<>>, FALSE, TRUE)
              ELSE Then(Result(<< <<h.id, FrameAccessors[i], "">> >>, <<>>, FALSE, FALSE),
                        try_accessors(h, i + 1))
         ELSE try_accessors(h, i + 1)

\* vars(None) raises TypeError
extract_frame(h) ==
    IF h.id = 0 THEN Result(<<>>, <<>>, TRUE, FALSE) ELSE try_accessors(h, 1)

\* MenuLCDBridge.get_frame: extraction failures are logged, never raised.
get_frame(h) ==
    LET e == extract_frame(h) IN
    IF e.raised THEN Result(e.calls, <<"get_frame failed">>, FALSE, FALSE) ELSE e

----------------------------------------------------------------------------
\* Construction.

\* Where _import_and_create can raise before line 325 assigns self.instance.
FailStages == {"chdir", "missing_file", "import_error", "no_parser", "no_initializer",
               "fonts", "initializer_error"}

\* The exception type each of them raises.
StageExc(stage) ==
    CASE stage = "chdir" -> "FileNotFoundError"
      [] stage \in {"missing_file", "no_parser", "no_initializer"} -> "BridgeError"
      [] stage = "import_error" -> "ImportError"
      [] OTHER -> "Exception"

\* _import_and_create with line 325 lost: the instance built is never installed.
import_and_create_stale(stage, s) ==
    [inst |-> instance,
     shape |-> [exposes |-> exposes, raises |-> raises, size |-> size],
     res |-> Result(<<>>, <<>>, stage \in FailStages, FALSE),
     built |-> IF stage \in FailStages THEN 0 ELSE nextId,
     native |-> native_size]

\* _import_and_create storing a size also when the probe found no frame.
import_and_create_unsized(stage, s) ==
    IF stage \in FailStages
    THEN [inst |-> instance,
          shape |-> [exposes |-> exposes, raises |-> raises, size |-> size],
          res |-> [Result(<<>>, <<>>, TRUE, FALSE) EXCEPT !.exc = StageExc(stage)],
          built |-> 0,
          native |-> native_size]
    ELSE LET h == Host(nextId, s)
             e == extract_frame(h)
         IN  [inst |-> nextId, shape |-> s,
              res |-> Then(step(h), Result(e.calls, <<>>, e.raised, FALSE)),
              built |-> nextId,
              native |-> IF e.ret THEN s.size ELSE <<0, 0>>]

\* MenuLCDBridge._import_and_create: stage "ok" builds an instance of shape s
\* (its methods and the size of its framebuffer).  inst is the value of
\* self.instance afterwards, native that of self._native_size.
import_and_create(stage, s) ==
    IF stage \in FailStages
    THEN [inst |-> instance,
          shape |-> [exposes |-> exposes, raises |-> raises, size |-> size],
          res |-> [Result(<<>>,
                          IF stage = "fonts" THEN <<"Missing fonts">> ELSE <<>>,
                          TRUE, FALSE) EXCEPT !.exc = StageExc(stage)],
          built |-> 0,
          native |-> native_size]
    ELSE LET h == Host(nextId, s)
             e == extract_frame(h)
         IN  [inst |-> nextId, shape |-> s,
              res |-> Then(step(h), Result(e.calls, <<>>, e.raised, FALSE)),
              built |-> nextId,
              native |-> IF e.ret THEN s.size ELSE native_size]

\* MenuLCDBridge.reload: the failure is logged and re-raised.
reload(stage, s) ==
    LET c == import_and_create(stage, s) IN
    [c EXCEPT !.res = IF c.res.raised
                      THEN [c.res EXCEPT !.errs = c.res.errs \o <<"Reload failed">>]
                      ELSE c.res]

\* The statements of _import_and_create that act on the process or can raise,
\* in the order of lines 244-331.
Statements ==
    <<"install_mido_stub", "chdir", "exists", "reload lib.argument_parser",
      "getattr ArgumentParser", "reload lib.platform", "patch Hotspot",
      "reload lib.component_initializer", "reload lib.menulcd", "Parser",
      "getattr ComponentInitializer", "CI", "assign instance", "step",
      "extract_frame">>

\* The statement at which each stage raises (an import error is taken at the
\* first import); stage "ok" runs them all.
RaisesAt(stage) ==
    CASE stage = "chdir" -> 2
      [] stage = "missing_file" -> 3
      [] stage = "import_error" -> 4
      [] stage = "no_parser" -> 5
      [] stage = "no_initializer" -> 11
      [] stage \in {"fonts", "initializer_error"} -> 12
      [] OTHER -> Len(Statements)

\* sys.argv while statement i runs: lines 260-261 narrow it to the program
\* name and the finally of line 267 puts the saved list back, around the
\* getattr of line 263 only.
ArgvAt(i, argv) ==
    IF Statements[i] = "getattr ArgumentParser" THEN <<argv[1]>> ELSE argv

\* The working directory while statement i runs: os.chdir(r) is statement 2.
CwdAt(i, dir, r) == IF i > 2 THEN r ELSE dir

\* _import_and_create whose restore of the working directory (line 335) is
\* the last statement of the try body instead of a finally.
construction_unrestored(stage, argv, dir, r) ==
    LET n == RaisesAt(stage)
        body == [i \in 1..n |->
                    [at |-> Statements[i], argv |-> ArgvAt(i, argv), cwd |-> CwdAt(i, dir, r)]]
    IN  IF stage = "ok"
        THEN [steps |-> body \o <<[at |-> "chdir old_cwd", argv |-> argv, cwd |-> r]>>,
              argv |-> argv, cwd |-> dir]
        ELSE [steps |-> body, argv |-> argv,
              cwd |-> IF stage = "chdir" THEN dir ELSE r]

\* What _import_and_create does to the process it runs in, started with
\* sys.argv = argv in working directory dir for the repository root r: the
\* statements it runs, and sys.argv and the working directory when it ends.
\* os.chdir(r) of line 251 is outside the try: when it raises nothing has
\* moved; in every other case line 335 runs.
construction(stage, argv, dir, r) ==
    LET n == RaisesAt(stage)
        body == [i \in 1..n |->
                    [at |-> Statements[i], argv |-> ArgvAt(i, argv), cwd |-> CwdAt(i, dir, r)]]
    IN  IF stage = "chdir"
        THEN [steps |-> body, argv |-> argv, cwd |-> dir]
        ELSE [steps |-> body \o <<[at |-> "chdir old_cwd", argv |-> argv, cwd |-> r]>>,
              argv |-> argv, cwd |-> dir]

\* sys.modules of a fresh interpreter, as far as the construction depends on
\* it: no RPi.GPIO, no mido, lib.platform not loaded.
FreshModules == [shim |-> FALSE, mido |-> "none", hotspot |-> "unloaded"]

\* stubs_gpio.install_as_rpi (lines 114-118), which __init__ calls at line 131.
install_as_rpi(m) == [m EXCEPT !.shim = TRUE]

\* The construction whose lines 272-279 leave lib.platform's Hotspot as loaded.
after_unpatched(st, m, hot) ==
    CASE st = "install_mido_stub" ->
            [m EXCEPT !.mido = IF @ = "none" THEN "stub" ELSE @]
      [] st = "reload lib.platform" ->
            [m EXCEPT !.hotspot = IF hot THEN "original" ELSE "absent"]
      [] OTHER -> m

\* sys.modules after statement st of _import_and_create ran on m; hot: the
\* hosted lib.platform defines Hotspot.  _install_mido_stub registers the
\* stub unless a mido is there (lines 25-26), _reload executes lib.platform
\* afresh (lines 337-340), lines 272-279 replace its Hotspot if it has one.
after(st, m, hot) ==
    CASE st = "install_mido_stub" ->
            [m EXCEPT !.mido = IF @ = "none" THEN "stub" ELSE @]
      [] st = "reload lib.platform" ->
            [m EXCEPT !.hotspot = IF hot THEN "original" ELSE "absent"]
      [] st = "patch Hotspot" ->
            [m EXCEPT !.hotspot = IF @ = "original" THEN "noop" ELSE @]
      [] OTHER -> m

\* sys.modules when statement i starts, the construction having started on m.
RECURSIVE TableAt(_, _, _)
TableAt(i, m, hot) ==
    IF i = 1 THEN m ELSE after(Statements[i - 1], TableAt(i - 1, m, hot), hot)

\* _import_and_create as the process sees it: construction, with sys.modules
\* in force at each statement (mods) and when it ends.  A statement that
\* raises registers nothing.
import_process(stage, argv, dir, r, m, hot) ==
    LET k == construction(stage, argv, dir, r)
        n == RaisesAt(stage)
        end == IF stage = "ok" THEN TableAt(n + 1, m, hot) ELSE TableAt(n, m, hot)
    IN  [steps |-> [i \in DOMAIN k.steps |->
                      [at |-> k.steps[i].at, argv |-> k.steps[i].argv,
                       cwd |-> k.steps[i].cwd,
                       mods |-> IF i <= n THEN TableAt(i, m, hot) ELSE end]],
         argv |-> k.argv, cwd |-> k.cwd, mods |-> end]

\* The construction of this step, for repository root r.
process(stage, r) == import_process(stage, sys_argv, cwd, r, sys_modules, hostedHotspot)

----------------------------------------------------------------------------
\* The Bridge's public operations as actions.

\* An operation that returned nothing, raised nothing and wrote nothing.
NoResult == [ret |-> FALSE, exc |-> "", acts |-> <<>>,
             arg |-> "", nums |-> <<>>, frame |-> 0, wrote |-> "",
             popped |-> <<>>, cleared |-> <<>>, steps |-> <<>>]

\* What the caller of operation op sees: arg / nums are the arguments it
\* passed, frame the frame object returned (0 = None), wrote the artifact
\* written ("" = none), w the statements its _import_and_create ran, each
\* with the sys.argv and working directory in force (<<>> if it ran none).
ObserveWalk(op, r, arg, nums, frame, wrote, w) ==
    /\ lastOp' = op
    /\ calls' = r.calls
    /\ pushed' = r.errs
    /\ propagated' = r.raised
    /\ before' = instance
    /\ errors' = errors \o r.errs
    /\ result' = [ret |-> r.ret, exc |-> r.exc, acts |-> r.acts,
                  arg |-> arg, nums |-> nums, frame |-> frame, wrote |-> wrote,
                  popped |-> <<>>, cleared |-> <<>>, steps |-> w]
    /\ UNCHANGED <<out, gpioVars, watcherVars, watcherObs>>

ObserveAs(op, r, arg, nums, frame, wrote) == ObserveWalk(op, r, arg, nums, frame, wrote, <<>>)

Observe(op, r) == ObserveAs(op, r, "", <<>>, 0, "")

CanOperate == Len(errors) <= MaxErrLog

NavAction(a) ==
    /\ CanOperate
    /\ Observe(a, nav_action(Current, a))
    /\ built' = 0
    /\ UNCHANGED <<instance, exposes, raises, last_frame, nextId, hostedNames>>
    /\ UNCHANGED <<cfgVars, native_size, size, pixels, held>>

ActionHome ==
    /\ CanOperate
    /\ Observe("action_home", action_home(Current))
    /\ built' = 0
    /\ UNCHANGED <<instance, exposes, raises, last_frame, nextId, hostedNames>>
    /\ UNCHANGED <<cfgVars, native_size, size, pixels, held>>

ActionEncoder(delta) ==
    /\ CanOperate
    /\ ObserveAs("action_encoder", action_encoder(Current, delta), "", <<delta>>, 0, "")
    /\ built' = 0
    /\ UNCHANGED <<instance, exposes, raises, last_frame, nextId, hostedNames>>
    /\ UNCHANGED <<cfgVars, native_size, size, pixels, held>>

\* The framebuffer content after the hosted render method has run: hosted
\* modules that redraw draw into the framebuffer object they keep.
Redrawn(px) == 1 - px

\* The framebuffers after a step whose outcome is r: only a render method that
\* was reached and returned can have drawn.
drawn(r) ==
    IF hostedDraws /\ r.ret
    THEN {pixels, [pixels EXCEPT ![instance] = Redrawn(pixels[instance])]}
    ELSE {pixels}

Step ==
    /\ CanOperate
    /\ Observe("step", step(Current))
    /\ pixels' \in drawn(step(Current))
    /\ built' = 0
    /\ UNCHANGED <<instance, exposes, raises, last_frame, nextId, hostedNames>>
    /\ UNCHANGED <<cfgVars, native_size, size, held>>

\* The frame object f as its holder sees it now.
FrameValue(f) == IF f = 0 THEN [obj |-> 0, px |-> 0] ELSE [obj |-> f, px |-> pixels[f]]

\* get_frame returning what this extraction yielded, remembering nothing.
GetFrameFresh ==
    /\ CanOperate
    /\ LET r == get_frame(Current)
           f == IF r.ret THEN instance ELSE 0
       IN  /\ ObserveAs("get_frame", r, "", <<>>, f, "")
           /\ last_frame' = f
           /\ held' = FrameValue(f)
    /\ built' = 0
    /\ UNCHANGED <<instance, exposes, raises, nextId, hostedNames>>
    /\ UNCHANGED <<cfgVars, native_size, size, pixels>>

GetFrame ==
    /\ CanOperate
    /\ LET r == get_frame(Current)
           f == IF r.ret THEN instance ELSE last_frame
       IN  /\ ObserveAs("get_frame", r, "", <<>>, f, "")
           /\ last_frame' = f
           /\ held' = FrameValue(f)
    /\ built' = 0
    /\ UNCHANGED <<instance, exposes, raises, nextId, hostedNames>>
    /\ UNCHANGED <<cfgVars, native_size, size, pixels>>

\* The state a construction outcome c leaves, seen as operation op; k is what
\* the construction did to the process, made the configuration the instance
\* then in self.instance was constructed with.
Rebuild(op, c, arg, k) ==
    /\ ObserveWalk(op, c.res, arg, <<>>, 0, "", k.steps)
    /\ sys_argv' = k.argv
    /\ cwd' = k.cwd
    /\ sys_modules' = k.mods
    /\ made' = IF c.inst # instance
               THEN [repo |-> repo_path', profile |-> display_profile']
               ELSE made
    /\ instance' = c.inst
    /\ exposes' = c.shape.exposes
    /\ raises' = c.shape.raises
    /\ size' = c.shape.size
    /\ native_size' = c.native
    /\ built' = c.built
    /\ nextId' = IF c.built # 0 THEN nextId + 1 ELSE nextId
    /\ UNCHANGED <<last_frame, hostedNames, hostedSizes, hostedDraws, hostedHotspot,
                   pixels, held>>

Reload(stage, s) ==
    /\ CanOperate
    /\ stage = "ok" => nextId <= MaxInstances
    /\ UNCHANGED <<display_profile, repo_path>>
    /\ Rebuild("reload", reload(stage, s), "", process(stage, repo_path))

\* The instance in place, as a shape.
CurrentShape == [exposes |-> exposes, raises |-> raises, size |-> size]

\* The shapes the hosted module's source may have at the next construction:
\* at most one method edited, any of the framebuffer sizes.
NextShapes ==
    {[exposes |-> t.exposes, raises |-> t.raises, size |-> z] :
        t \in Edits([exposes |-> exposes, raises |-> raises], hostedNames),
        z \in hostedSizes}

\* A reload whose reconstruction raises at one of the FailStages.
ReloadFails == \E stage \in FailStages : Reload(stage, CurrentShape)

\* A reload that constructs the (possibly edited) hosted module.
ReloadOk == \E s \in NextShapes : Reload("ok", s)

\* The display profiles set_display_profile accepts ("" stands for None).
ValidProfiles == {"", "1in44", "1in3"}

\* The display-profile arguments explored: the accepted ones and another.
Profiles == ValidProfiles \cup {"2in4"}
\* The repository roots explored.
Repos == {"repoA", "repoB"}

\* MenuLCDBridge.set_repo: rebinds the root, then reloads.
SetRepo(new, stage, s) ==
    /\ CanOperate
    /\ stage = "ok" => nextId <= MaxInstances
    /\ repo_path' = new
    /\ UNCHANGED display_profile
    /\ Rebuild("set_repo", reload(stage, s), new, process(stage, new))

\* set_display_profile with the assignment of line 468 ahead of the check.
set_display_profile_unchecked(p, re) ==
    [profile |-> p,
     res |-> IF p \in ValidProfiles THEN Nothing ELSE Raise("BridgeError"),
     reloads |-> re /\ p \in ValidProfiles]

\* MenuLCDBridge.set_display_profile up to its reload: the value of
\* self.display_profile afterwards, its outcome so far, and whether it goes on
\* to reload().
set_display_profile(p, re) ==
    IF p \notin ValidProfiles
    THEN [profile |-> display_profile, res |-> Raise("BridgeError"), reloads |-> FALSE]
    ELSE [profile |-> p, res |-> Nothing, reloads |-> re]

SetDisplayProfile(p, re, stage, s) ==
    /\ CanOperate
    /\ stage = "ok" => nextId <= MaxInstances
    /\ LET d == set_display_profile(p, re) IN
       /\ display_profile' = d.profile
       /\ UNCHANGED repo_path
       /\ IF d.reloads
          THEN Rebuild("set_display_profile", reload(stage, s), p,
                       process(stage, repo_path))
          ELSE /\ stage = "ok" /\ s = CurrentShape
               /\ ObserveAs("set_display_profile", d.res, p, <<>>, 0, "")
               /\ built' = 0
               /\ UNCHANGED <<instance, exposes, raises, size, native_size, nextId,
                              last_frame, hostedNames, hostedSizes, hostedDraws,
                              hostedHotspot, pixels, held, procVars>>

\* snapshot_png without the check of lines 214-215: None has no save().
snapshot_png_unchecked(h) ==
    LET g == get_frame(h)
        f == IF g.ret THEN h.id ELSE last_frame
    IN  [res |-> IF f = 0 THEN Then(g, Raise("AttributeError")) ELSE g,
         frame |-> f,
         wrote |-> IF f = 0 THEN "" ELSE "png"]

\* MenuLCDBridge.snapshot_png: frame is self._last_frame afterwards, wrote the
\* artifact written.
snapshot_png(h) ==
    LET g == get_frame(h)
        f == IF g.ret THEN h.id ELSE last_frame
    IN  [res |-> IF f = 0 THEN Then(g, Raise("BridgeError")) ELSE g,
         frame |-> f,
         wrote |-> IF f = 0 THEN "" ELSE "png"]

SnapshotPng ==
    /\ CanOperate
    /\ LET c == snapshot_png(Current) IN
       /\ ObserveAs("snapshot_png", c.res, "", <<>>, 0, c.wrote)
       /\ last_frame' = c.frame
    /\ built' = 0
    /\ UNCHANGED <<instance, exposes, raises, nextId, hostedNames>>
    /\ UNCHANGED <<cfgVars, native_size, size, pixels, held>>

\* Capture durations (seconds) and rates (fps) explored.
MaxSeconds == 1
MaxFps == 2

\* Passes of record_gif's loop: each takes the interval 1/fps.
passes(seconds, fps) == seconds * fps

\* MenuLCDBridge.record_gif: every pass runs step() then get_frame() and keeps
\* a copy of the frame it got, if any.
record_gif(h, seconds, fps) ==
    IF fps = 0
    THEN [res |-> Raise("ZeroDivisionError"), frame |-> last_frame, wrote |-> ""]
    ELSE LET n == passes(seconds, fps)
             g == get_frame(h)
             f == IF n > 0 /\ g.ret THEN h.id ELSE last_frame
             captured == IF f # 0 THEN n ELSE 0
             body == Repeat(n, Then(step(h), g))
         IN  IF captured = 0
             THEN [res |-> Then(body, Raise("BridgeError")), frame |-> f, wrote |-> ""]
             ELSE [res |-> body, frame |-> f, wrote |-> "gif"]

RecordGif(seconds, fps) ==
    /\ CanOperate
    /\ LET c == record_gif(Current, seconds, fps) IN
       /\ ObserveAs("record_gif", c.res, "", <<seconds, fps>>, 0, c.wrote)
       /\ last_frame' = c.frame
       /\ pixels' \in (IF fps > 0 /\ passes(seconds, fps) > 0
                       THEN drawn(step(Current)) ELSE {pixels})
    /\ built' = 0
    /\ UNCHANGED <<instance, exposes, raises, nextId, hostedNames>>
    /\ UNCHANGED <<cfgVars, native_size, size, held>>

PopErrors ==
    /\ errors' = <<>>
    /\ lastOp' = "pop_errors"
    /\ calls' = <<>>
    /\ pushed' = <<>>
    /\ propagated' = FALSE
    /\ before' = instance
    /\ built' = 0
    /\ result' = [NoResult EXCEPT !.ret = TRUE, !.popped = errors, !.cleared = errors]
    /\ UNCHANGED <<instance, exposes, raises, last_frame, nextId, hostedNames>>
    /\ UNCHANGED <<cfgVars, native_size, size, pixels, held, out>>
    /\ UNCHANGED <<gpioVars, watcherVars, watcherObs>>

----------------------------------------------------------------------------
\* The pin emulator, stubs_gpio.py.  Its registries are dictionaries: functions
\* whose domain is the set of channels that have an entry.

\* stubs_gpio.py:15-16, 24-26, 29-30 (IN is written GPIO_IN: the bare word is
\* reserved here)
GPIO_IN == 0
GPIO_OUT == 1
RISING == 5
FALLING == 6
BOTH == 7
HIGH == 1
LOW == 0

\* The channels (BCM pin numbers) explored.
Channels == {17, 27}

\* An edge callback: the call forms its signature accepts ("one": only
\* cb(channel); "none": only cb(); "either": both, as with a default or a
\* variadic parameter) and what its body does when it runs.
Callbacks == [arity : {"one", "none", "either"},
              body : {"returns", "TypeError", "RuntimeError"}]

EmptyDict == [c \in {} |-> 0]

\* d[k] = v
Put(d, k, v) == [c \in DOMAIN d \cup {k} |-> IF c = k THEN v ELSE d[c]]
\* d.pop(k, None)
Pop(d, k) == [c \in DOMAIN d \ {k} |-> d[c]]

NotSimulated == [channel |-> 0, registered |-> FALSE, attempts |-> <<>>, runs |-> 0, exc |-> ""]

\* The module as imported: empty registries.
GpioInit ==
    /\ gpio_callbacks = EmptyDict
    /\ gpio_edges = EmptyDict
    /\ gpio_pin_state = EmptyDict
    /\ gpio_pin_dir = EmptyDict
    /\ simulated = NotSimulated
    /\ gpio_op = <<"import", 0>>
    /\ written = [c \in Channels |-> -1]

\* The emulator's calls leave the Bridge and the watcher alone.
GpioFrame ==
    UNCHANGED <<instance, exposes, raises, errors, last_frame, nextId, hostedNames,
                lastOp, calls, pushed, propagated, before, built,
                cfgVars, native_size, size, pixels, held, result, out,
                watcherVars, watcherObs>>

\* setup(channel, mode, pull_up_down, initial); initial = -1 stands for None.
Setup(channel, mode, initial) ==
    /\ gpio_pin_dir' = Put(gpio_pin_dir, channel, mode)
    /\ gpio_pin_state' = IF initial # -1 THEN Put(gpio_pin_state, channel, initial)
                         ELSE gpio_pin_state
    /\ gpio_op' = <<"setup", channel>>
    /\ written' = IF initial # -1 THEN [written EXCEPT ![channel] = initial] ELSE written
    /\ UNCHANGED <<gpio_callbacks, gpio_edges, simulated>>
    /\ GpioFrame

\* output(channel, value)
Output(channel, value) ==
    /\ gpio_pin_state' = Put(gpio_pin_state, channel, IF value # 0 THEN HIGH ELSE LOW)
    /\ gpio_op' = <<"output", channel>>
    /\ written' = [written EXCEPT ![channel] = IF value # 0 THEN HIGH ELSE LOW]
    /\ UNCHANGED <<gpio_callbacks, gpio_edges, gpio_pin_dir, simulated>>
    /\ GpioFrame

\* input(channel)
input(channel) == IF channel \in DOMAIN gpio_pin_state THEN gpio_pin_state[channel] ELSE LOW

AddEventDetect(channel, edge, callback) ==
    /\ gpio_callbacks' = Put(gpio_callbacks, channel, callback)
    /\ gpio_edges' = Put(gpio_edges, channel, edge)
    /\ gpio_op' = <<"add_event_detect", channel>>
    /\ UNCHANGED <<gpio_pin_state, gpio_pin_dir, simulated, written>>
    /\ GpioFrame

RemoveEventDetect(channel) ==
    /\ gpio_callbacks' = Pop(gpio_callbacks, channel)
    /\ gpio_edges' = Pop(gpio_edges, channel)
    /\ gpio_op' = <<"remove_event_detect", channel>>
    /\ UNCHANGED <<gpio_pin_state, gpio_pin_dir, simulated, written>>
    /\ GpioFrame

\* cleanup(channel) that forgets the pin records of lines 98-99.
CleanupEdgesOnly(channel) ==
    /\ gpio_callbacks' = Pop(gpio_callbacks, channel)
    /\ gpio_edges' = Pop(gpio_edges, channel)
    /\ gpio_op' = <<"cleanup", channel>>
    /\ written' = [written EXCEPT ![channel] = -1]
    /\ UNCHANGED <<gpio_pin_state, gpio_pin_dir, simulated>>
    /\ GpioFrame

\* cleanup(channel)
Cleanup(channel) ==
    /\ gpio_callbacks' = Pop(gpio_callbacks, channel)
    /\ gpio_edges' = Pop(gpio_edges, channel)
    /\ gpio_pin_state' = Pop(gpio_pin_state, channel)
    /\ gpio_pin_dir' = Pop(gpio_pin_dir, channel)
    /\ gpio_op' = <<"cleanup", channel>>
    /\ written' = [written EXCEPT ![channel] = -1]
    /\ UNCHANGED simulated
    /\ GpioFrame

\* cleanup()
CleanupAll ==
    /\ gpio_callbacks' = EmptyDict
    /\ gpio_edges' = EmptyDict
    /\ gpio_pin_state' = EmptyDict
    /\ gpio_pin_dir' = EmptyDict
    /\ gpio_op' = <<"cleanup", 0>>
    /\ written' = [c \in Channels |-> -1]
    /\ UNCHANGED simulated
    /\ GpioFrame

\* One call of callback cb in the given form ("cb(channel)" or "cb()"): does
\* its body run, and which exception leaves the call.  A form the signature
\* rejects raises TypeError before the body runs.
call(cb, form) ==
    LET binds == IF form = "cb(channel)" THEN cb.arity \in {"one", "either"}
                 ELSE cb.arity \in {"none", "either"}
    IN  IF ~binds THEN [ran |-> 0, exc |-> "TypeError"]
        ELSE [ran |-> 1, exc |-> IF cb.body = "returns" THEN "" ELSE cb.body]

\* simulate_edge(channel): the call forms tried, the number of times the
\* callback's body ran, and the exception that leaves simulate_edge.
simulate_edge(cbs, channel) ==
    IF channel \notin DOMAIN cbs
    THEN [channel |-> channel, registered |-> FALSE, attempts |-> <<>>, runs |-> 0, exc |-> ""]
    ELSE LET first == call(cbs[channel], "cb(channel)")
             second == call(cbs[channel], "cb()")
         IN  IF first.exc = "TypeError"
             THEN [channel |-> channel, registered |-> TRUE,
                   attempts |-> <<"cb(channel)", "cb()">>,
                   runs |-> first.ran + second.ran, exc |-> second.exc]
             ELSE [channel |-> channel, registered |-> TRUE,
                   attempts |-> <<"cb(channel)">>,
                   runs |-> first.ran, exc |-> first.exc]

SimulateEdge(channel) ==
    /\ simulated' = simulate_edge(gpio_callbacks, channel)
    /\ gpio_op' = <<"simulate_edge", channel>>
    /\ UNCHANGED <<gpio_callbacks, gpio_edges, gpio_pin_state, gpio_pin_dir, written>>
    /\ GpioFrame

----------------------------------------------------------------------------
\* RepoWatcher.  Time is counted in milliseconds and advances in steps of
\* the poll interval; a timer saturates once the comparisons made on it no
\* longer change.

\* time.sleep(0.05) in _debounce_loop, watcher.py:75
PollMs == 50
\* debounce_ms, watcher.py:25 (and app.py:298)
DebounceMs == 200
TimerCap == DebounceMs + PollMs

\* Flush-loop threads one RepoWatcher creates in a run (one per start()).
MaxThreads == 2
\* Filesystem events reported in a run.
MaxEvents == 2

Threads == 1..MaxThreads
\* Paths the notification source reports.
Paths == {"menu.xml", "settings.xml"}

Advance(t) == IF t + PollMs >= TimerCap THEN TimerCap ELSE t + PollMs

\* list({c for c in self._changed}): the distinct elements, in the set's order.
RECURSIVE SeqOf(_)
SeqOf(S) == IF S = {} THEN <<>>
            ELSE LET x == CHOOSE y \in S : TRUE IN <<x>> \o SeqOf(S \ {x})

snapshot(buffer) == SeqOf(Range(buffer))

\* A RepoWatcher as __init__ leaves it.
WatcherInit ==
    /\ is_running = FALSE
    /\ stopFlag = FALSE
    /\ obs = FALSE
    /\ thr = 0
    /\ changed = <<>>
    /\ pc = [t \in Threads |-> "unborn"]
    /\ sinceFlush = [t \in Threads |-> 0]
    /\ slept = [t \in Threads |-> FALSE]
    /\ payload = [t \in Threads |-> <<>>]
    /\ main = "idle"
    /\ sinceEvent = 0
    /\ bursts = 0
    /\ clean = TRUE
    /\ callbacks = 0
    /\ awaiting = {}
    /\ cbAfterStop = 0
    /\ joinTimedOut = FALSE

\* RepoWatcher.start, called from the UI thread.
Start ==
    /\ main = "idle"
    /\ ~is_running
    /\ startsLeft > 0
    /\ \E t \in Threads :
         /\ pc[t] = "unborn"
         /\ \A u \in Threads : u < t => pc[u] # "unborn"
         /\ thr' = t
         /\ pc' = [pc EXCEPT ![t] = "while"]
         /\ sinceFlush' = [sinceFlush EXCEPT ![t] = 0]
    /\ stopFlag' = FALSE
    /\ changed' = <<>>
    /\ obs' = TRUE
    /\ is_running' = TRUE
    /\ startsLeft' = startsLeft - 1
    /\ sinceEvent' = 0
    /\ bursts' = 0
    /\ clean' = TRUE
    /\ callbacks' = 0
    /\ awaiting' = {}
    /\ cbAfterStop' = 0
    /\ UNCHANGED <<slept, payload, main, eventsLeft, joinTimedOut, bridgeVars>>

\* RepoWatcher.stop, lines 57-59: the request.
StopRequest ==
    /\ main = "idle"
    /\ is_running
    /\ stopFlag' = TRUE
    /\ main' = "stop_obs"
    /\ cbAfterStop' = 0
    /\ UNCHANGED <<is_running, obs, thr, changed, pc, sinceFlush, slept, payload,
                   startsLeft, eventsLeft, sinceEvent, bursts, clean, callbacks,
                   awaiting, joinTimedOut, bridgeVars>>

\* RepoWatcher.stop, lines 60-63: the notification source is stopped.
StopObserver ==
    /\ main = "stop_obs"
    /\ obs' = FALSE
    /\ main' = "stop_join"
    /\ UNCHANGED <<is_running, stopFlag, thr, changed, pc, sinceFlush, slept, payload,
                   startsLeft, eventsLeft, watcherObs, bridgeVars>>

\* The join of line 65 returns: the thread ended, or the 2.0 s ran out, which
\* takes a callback that is still executing.
JoinReturns(t) == pc[t] = "done" \/ pc[t] = "callback"

\* stop() without the join of line 65: Idle is declared at once.
StopNoJoin ==
    /\ main = "stop_join"
    /\ thr # 0
    /\ joinTimedOut' = FALSE
    /\ thr' = 0
    /\ is_running' = FALSE
    /\ main' = "idle"
    /\ UNCHANGED <<stopFlag, obs, changed, pc, sinceFlush, slept, payload,
                   startsLeft, eventsLeft, sinceEvent, bursts, clean, callbacks,
                   awaiting, cbAfterStop, bridgeVars>>

\* RepoWatcher.stop, lines 64-67: the bounded join, then Idle.
StopJoin ==
    /\ main = "stop_join"
    /\ thr # 0
    /\ JoinReturns(thr)
    /\ joinTimedOut' = (pc[thr] # "done")
    /\ thr' = 0
    /\ is_running' = FALSE
    /\ main' = "idle"
    /\ UNCHANGED <<stopFlag, obs, changed, pc, sinceFlush, slept, payload,
                   startsLeft, eventsLeft, sinceEvent, bursts, clean, callbacks,
                   awaiting, cbAfterStop, bridgeVars>>

\* What start() and stop() set up and tear down.
lifecycle == <<is_running, stopFlag, obs, thr, changed, pc, sinceFlush, slept, payload>>

\* start() that skipped the check of line 37 on a running watcher: lines
\* 39-54 run again.
StartAgain ==
    /\ main = "idle"
    /\ is_running
    /\ \E t \in Threads :
         /\ pc[t] = "unborn"
         /\ \A u \in Threads : u < t => pc[u] # "unborn"
         /\ thr' = t
         /\ pc' = [pc EXCEPT ![t] = "while"]
         /\ sinceFlush' = [sinceFlush EXCEPT ![t] = 0]
    /\ stopFlag' = FALSE
    /\ changed' = <<>>
    /\ main' = "start_return"
    /\ UNCHANGED <<is_running, obs, slept, payload, startsLeft, eventsLeft,
                   watcherObs, bridgeVars>>

\* RepoWatcher.start on a running watcher, lines 37-38: the early return.
StartWhileWatching ==
    /\ main = "idle"
    /\ is_running
    /\ main' = "start_return"
    /\ UNCHANGED <<lifecycle, startsLeft, eventsLeft, watcherObs, bridgeVars>>

\* RepoWatcher.stop on an idle watcher, lines 57-58: the early return.
StopWhileIdle ==
    /\ main = "idle"
    /\ ~is_running
    /\ main' = "stop_return"
    /\ UNCHANGED <<lifecycle, startsLeft, eventsLeft, watcherObs, bridgeVars>>

\* The caller has the control back after an early return.
Returned ==
    /\ main \in {"start_return", "stop_return"}
    /\ main' = "idle"
    /\ UNCHANGED <<lifecycle, startsLeft, eventsLeft, watcherObs, bridgeVars>>

\* RepoWatcher._on_event, on the notification source's thread.
OnEvent(p) ==
    /\ obs
    /\ eventsLeft > 0
    /\ changed' = Append(changed, p)
    /\ eventsLeft' = eventsLeft - 1
    /\ sinceEvent' = 0
    /\ bursts' = IF bursts = 0 \/ sinceEvent >= DebounceMs THEN bursts + 1 ELSE bursts
    /\ clean' = (clean /\ (bursts = 0 \/ sinceEvent # DebounceMs))
    /\ awaiting' = IF stopFlag THEN awaiting ELSE awaiting \cup {p}
    /\ UNCHANGED <<is_running, stopFlag, obs, thr, pc, sinceFlush, slept, payload, main,
                   startsLeft, callbacks, cbAfterStop, joinTimedOut, bridgeVars>>

\* _debounce_loop, line 74: the loop condition.
loop_continues == ~stopFlag

LoopCheck(t) ==
    /\ pc[t] = "while"
    /\ pc' = [pc EXCEPT ![t] = IF loop_continues THEN "sleep" ELSE "done"]
    /\ slept' = [slept EXCEPT ![t] = FALSE]
    /\ UNCHANGED <<is_running, stopFlag, obs, thr, changed, sinceFlush, payload, main,
                   startsLeft, eventsLeft, watcherObs, bridgeVars>>

\* _debounce_loop, line 77: the flush condition, on the time sampled at line 76.
flush_due(t) == changed # <<>> /\ sinceFlush[t] >= DebounceMs

\* _debounce_loop, lines 75-78 and the value line 80 gives last_flush: the
\* sleep is over, the time is sampled, and if the flush is due the buffer is
\* copied (last_flush becomes the time sampled here).
LoopWake(t) ==
    /\ pc[t] = "sleep"
    /\ slept[t]
    /\ IF flush_due(t)
       THEN /\ payload' = [payload EXCEPT ![t] = snapshot(changed)]
            /\ sinceFlush' = [sinceFlush EXCEPT ![t] = 0]
            /\ pc' = [pc EXCEPT ![t] = "clear"]
       ELSE /\ pc' = [pc EXCEPT ![t] = "while"]
            /\ UNCHANGED <<payload, sinceFlush>>
    /\ UNCHANGED <<is_running, stopFlag, obs, thr, changed, slept, main,
                   startsLeft, eventsLeft, watcherObs, bridgeVars>>

\* _debounce_loop, lines 79-82: the buffer is cleared and on_change is called.
LoopClear(t) ==
    /\ pc[t] = "clear"
    /\ changed' = <<>>
    /\ pc' = [pc EXCEPT ![t] = "callback"]
    /\ callbacks' = callbacks + 1
    /\ cbAfterStop' = IF stopFlag THEN cbAfterStop + 1 ELSE cbAfterStop
    /\ awaiting' = awaiting \ Range(payload[t])
    /\ UNCHANGED <<is_running, stopFlag, obs, thr, sinceFlush, slept, payload, main,
                   startsLeft, eventsLeft, sinceEvent, bursts, clean, joinTimedOut,
                   bridgeVars>>

\* _debounce_loop, lines 82-84: on_change returns, or raises and is logged.
CallbackEnds(t) ==
    /\ pc[t] = "callback"
    /\ pc' = [pc EXCEPT ![t] = "while"]
    /\ payload' = [payload EXCEPT ![t] = <<>>]
    /\ UNCHANGED <<is_running, stopFlag, obs, thr, changed, sinceFlush, slept, main,
                   startsLeft, eventsLeft, watcherObs, bridgeVars>>

\* _debounce_loop, lines 82-83: on_change raises an Exception, which the
\* handler of line 83 catches.
CallbackRaises(t) ==
    /\ pc[t] = "callback"
    /\ pc' = [pc EXCEPT ![t] = "except"]
    /\ payload' = [payload EXCEPT ![t] = <<>>]
    /\ UNCHANGED <<is_running, stopFlag, obs, thr, changed, sinceFlush, slept, main,
                   startsLeft, eventsLeft, watcherObs, bridgeVars>>

\* _debounce_loop, line 84: the error is logged and the loop goes on.
ExceptLogged(t) ==
    /\ pc[t] = "except"
    /\ pc' = [pc EXCEPT ![t] = "while"]
    /\ UNCHANGED <<is_running, stopFlag, obs, thr, changed, sinceFlush, slept, payload,
                   main, startsLeft, eventsLeft, watcherObs, bridgeVars>>

\* _debounce_loop, lines 82-83: on_change raises an exception that is not an
\* Exception (SystemExit, KeyboardInterrupt): line 83 does not catch it, it
\* leaves _debounce_loop and the thread ends.
CallbackEscapes(t) ==
    /\ pc[t] = "callback"
    /\ pc' = [pc EXCEPT ![t] = "done"]
    /\ payload' = [payload EXCEPT ![t] = <<>>]
    /\ UNCHANGED <<is_running, stopFlag, obs, thr, changed, sinceFlush, slept, main,
                   startsLeft, eventsLeft, watcherObs, bridgeVars>>

\* The poll interval elapses.
Tick ==
    /\ \E t \in Threads : pc[t] \notin {"unborn", "done"}
    /\ slept' = [t \in Threads |-> slept[t] \/ pc[t] = "sleep"]
    /\ sinceFlush' = [t \in Threads |->
                        IF pc[t] \in {"unborn", "done"} THEN sinceFlush[t]
                        ELSE IF sinceFlush[t] + PollMs >= DebounceMs THEN DebounceMs
                        ELSE sinceFlush[t] + PollMs]
    /\ sinceEvent' = IF bursts = 0 THEN 0 ELSE Advance(sinceEvent)
    /\ UNCHANGED <<is_running, stopFlag, obs, thr, changed, pc, payload, main,
                   startsLeft, eventsLeft, bursts, clean, callbacks, awaiting,
                   cbAfterStop, joinTimedOut, bridgeVars>>

----------------------------------------------------------------------------
\* MainWindow: the UI thread's use of the Bridge, and _on_repo_change, which
\* the flush loop calls as on_change and which calls bridge.reload() there.

\* LCDViewport._tick -> bridge.step(), paintEvent -> bridge.get_frame(),
\* the shortcuts -> bridge.action_*(), on_reload -> bridge.reload().
UiOps == {"step", "get_frame", "action", "reload"}

UiBegins(op) ==
    /\ main = "idle"
    /\ main' = op
    /\ UNCHANGED <<is_running, stopFlag, obs, thr, changed, pc, sinceFlush, slept, payload,
                   startsLeft, eventsLeft, watcherObs, bridgeVars>>

UiEnds ==
    /\ main \in UiOps
    /\ main' = "idle"
    /\ UNCHANGED <<is_running, stopFlag, obs, thr, changed, pc, sinceFlush, slept, payload,
                   startsLeft, eventsLeft, watcherObs, bridgeVars>>

\* Thread t is inside bridge.reload(), called by _on_repo_change (app.py:400).
HotReloading(t) == pc[t] = "callback"

----------------------------------------------------------------------------
\* The Bridge on its own, driven from the single render context.

\* Names the hosted modules of this specification may expose.
SpecNames == {"change_pointer", "button_up", "handle_key", "go_back", "render", "get_frame"}
Deltas == -2..2

\* self._native_size as __init__ sets it, menulcd_bridge.py:124
DefaultSize == <<320, 240>>

\* The working directory the previewer is launched in.
LaunchDir == "launch_dir"

\* The state __init__ leaves: the first instance constructed, its size probed.
\* names, sizes and draws describe the hosted modules of the run.
\* argv is the command line of the launch and profile the display profile
\* MainWindow derives from it (app.py:148-160).
BridgeInitWith(names, sizes, draws, argv, profile, hot) ==
    /\ hostedNames = names
    /\ hostedSizes = sizes
    /\ hostedDraws = draws
    /\ display_profile = profile
    /\ repo_path = "repoA"
    /\ hostedHotspot = hot
    /\ LET k == import_process("ok", argv, LaunchDir, "repoA",
                               install_as_rpi(FreshModules), hot) IN
          /\ sys_argv = k.argv
          /\ cwd = k.cwd
          /\ sys_modules = k.mods
          /\ result = [NoResult EXCEPT !.steps = k.steps]
    /\ made = [repo |-> "repoA", profile |-> profile]
    /\ \E s \in Shapes(names), z \in sizes :
          LET h == Host(1, s)
              e == extract_frame(h)
              r == Then(step(h), Result(e.calls, <<>>, FALSE, FALSE))
          IN  /\ instance = 1
              /\ exposes = s.exposes
              /\ raises = s.raises
              /\ size = z
              /\ native_size = IF e.ret THEN z ELSE DefaultSize
              /\ errors = r.errs
              /\ calls = r.calls
              /\ pushed = r.errs
    /\ pixels = [i \in 1..MaxInstances |-> 0]
    /\ held = [obj |-> 0, px |-> 0]
    /\ out = <<>>
    /\ last_frame = 0
    /\ nextId = 2
    /\ lastOp = "init"
    /\ propagated = FALSE
    /\ before = 0
    /\ built = 1
    /\ GpioInit

\* The same, launched without command-line flags, on a hosted module that
\* has a Hotspot.
BridgeInit(names, sizes, draws) ==
    BridgeInitWith(names, sizes, draws, <<"app.py">>, "", TRUE)

Init ==
    /\ BridgeInit(SpecNames, {DefaultSize}, FALSE)
    /\ WatcherInit
    /\ startsLeft = 0
    /\ eventsLeft = 0

Next ==
    \/ \E a \in NavActions : NavAction(a)
    \/ ActionHome
    \/ \E d \in Deltas : ActionEncoder(d)
    \/ Step
    \/ GetFrame
    \/ ReloadFails
    \/ ReloadOk
    \/ PopErrors

Spec == Init /\ [][Next]_vars

----------------------------------------------------------------------------
\* The Bridge's frames and captures: hosted modules that redraw.

\* Names the hosted modules of this specification may expose.
FrameNames == {"render", "get_frame", "image"}

FrameInit ==
    /\ BridgeInit(FrameNames, {DefaultSize}, TRUE)
    /\ WatcherInit
    /\ startsLeft = 0
    /\ eventsLeft = 0

FrameNext ==
    \/ Step
    \/ GetFrame
    \/ ReloadFails
    \/ ReloadOk
    \/ PopErrors
    \/ SnapshotPng
    \/ \E seconds \in 0..MaxSeconds, fps \in 0..MaxFps : RecordGif(seconds, fps)

FrameSpec == FrameInit /\ [][FrameNext]_vars

----------------------------------------------------------------------------
\* The Bridge's configuration: repository, display profile, native size.

ConfigNames == {"render", "image"}
\* The framebuffer sizes of the two display profiles.
ProfileSizes == {<<128, 128>>, <<240, 240>>}

\* The outcomes of a reconstruction: <<stage, shape constructed>>.
Constructions == (FailStages \X {CurrentShape}) \cup ({"ok"} \X NextShapes)

ConfigInit ==
    /\ BridgeInit(ConfigNames, ProfileSizes, FALSE)
    /\ WatcherInit
    /\ startsLeft = 0
    /\ eventsLeft = 0

ConfigNext ==
    \/ Step
    \/ ReloadFails
    \/ ReloadOk
    \/ PopErrors
    \/ \E new \in Repos, c \in Constructions : SetRepo(new, c[1], c[2])
    \/ \E p \in Profiles, re \in BOOLEAN, c \in Constructions :
          SetDisplayProfile(p, re, c[1], c[2])

ConfigSpec == ConfigInit /\ [][ConfigNext]_vars

----------------------------------------------------------------------------
\* The constructions of a run, for either way of launching the previewer:
\* `python app.py` and `python app.py --lcd 1in3` (app.py:458-466; main
\* parses sys.argv and leaves it as it is).

Launches == {[argv |-> <<"app.py">>, profile |-> ""],
             [argv |-> <<"app.py", "--lcd", "1in3">>, profile |-> "1in3"]}

LaunchInit ==
    /\ \E l \in Launches, hot \in BOOLEAN :
          BridgeInitWith({"render"}, {DefaultSize}, FALSE, l.argv, l.profile, hot)
    /\ WatcherInit
    /\ startsLeft = 0
    /\ eventsLeft = 0

LaunchNext ==
    \/ ReloadFails
    \/ ReloadOk
    \/ \E new \in Repos, c \in Constructions : SetRepo(new, c[1], c[2])
    \/ \E p \in Profiles, c \in Constructions : SetDisplayProfile(p, TRUE, c[1], c[2])

LaunchSpec == LaunchInit /\ [][LaunchNext]_vars

----------------------------------------------------------------------------
\* The status panel next to the hot reload: the UI thread's refresh_status
\* (app.py:419, on a 500 ms timer) calls pop_errors() while the watcher's
\* flush thread runs _on_repo_change, which calls bridge.reload()
\* (app.py:400).  The two statements of pop_errors are two steps.

\* pop_errors, line 238: out = self.errors[:]
PopCopy ==
    /\ main = "idle"
    /\ main' = "pop_errors"
    /\ out' = errors
    /\ UNCHANGED <<instance, exposes, raises, errors, last_frame, nextId, hostedNames,
                   lastOp, calls, pushed, propagated, before, built,
                   cfgVars, native_size, size, pixels, held, result, gpioVars>>
    /\ UNCHANGED <<is_running, stopFlag, obs, thr, changed, pc, sinceFlush, slept, payload,
                   startsLeft, eventsLeft, watcherObs>>

\* pop_errors, lines 239-240: self.errors.clear(); return out
PopClear ==
    /\ main = "pop_errors"
    /\ main' = "idle"
    /\ errors' = <<>>
    /\ out' = <<>>
    /\ lastOp' = "pop_errors"
    /\ calls' = <<>>
    /\ pushed' = <<>>
    /\ propagated' = FALSE
    /\ before' = instance
    /\ built' = 0
    /\ result' = [NoResult EXCEPT !.ret = TRUE, !.popped = out, !.cleared = errors]
    /\ UNCHANGED <<instance, exposes, raises, last_frame, nextId, hostedNames>>
    /\ UNCHANGED <<cfgVars, native_size, size, pixels, held, gpioVars>>
    /\ UNCHANGED <<is_running, stopFlag, obs, thr, changed, pc, sinceFlush, slept, payload,
                   startsLeft, eventsLeft, watcherObs>>

\* _on_repo_change on flush thread t (app.py:397-403): bridge.reload(), whose
\* exception the callback catches, and the callback returns.
HotReload(t, stage, s) ==
    /\ pc[t] = "callback"
    /\ CanOperate
    /\ stage = "ok" => nextId <= MaxInstances
    /\ LET c == reload(stage, s)
           k == process(stage, repo_path)
       IN /\ lastOp' = "reload"
          /\ calls' = c.res.calls
          /\ pushed' = c.res.errs
          /\ propagated' = c.res.raised
          /\ before' = instance
          /\ errors' = errors \o c.res.errs
          /\ result' = [NoResult EXCEPT !.ret = c.res.ret, !.exc = c.res.exc,
                                        !.steps = k.steps]
          /\ sys_argv' = k.argv
          /\ cwd' = k.cwd
          /\ sys_modules' = k.mods
          /\ made' = IF c.inst # instance
                     THEN [repo |-> repo_path, profile |-> display_profile]
                     ELSE made
          /\ instance' = c.inst
          /\ exposes' = c.shape.exposes
          /\ raises' = c.shape.raises
          /\ size' = c.shape.size
          /\ native_size' = c.native
          /\ built' = c.built
          /\ nextId' = IF c.built # 0 THEN nextId + 1 ELSE nextId
    /\ pc' = [pc EXCEPT ![t] = "while"]
    /\ payload' = [payload EXCEPT ![t] = <<>>]
    /\ UNCHANGED <<last_frame, hostedNames, hostedSizes, hostedDraws, hostedHotspot,
                   pixels, held, display_profile, repo_path, out, gpioVars>>
    /\ UNCHANGED <<is_running, stopFlag, obs, thr, changed, sinceFlush, slept, main,
                   startsLeft, eventsLeft, watcherObs>>

----------------------------------------------------------------------------
\* The watcher on its own: one RepoWatcher, started and stopped by its owner,
\* its notification source and its flush loops.

\* A Bridge that is constructed and left alone.
BridgeAtRest ==
    /\ hostedNames = {}
    /\ instance = 1
    /\ exposes = {}
    /\ raises = {}
    /\ errors = <<>>
    /\ last_frame = 0
    /\ nextId = 2
    /\ lastOp = "init"
    /\ calls = <<>>
    /\ pushed = <<>>
    /\ propagated = FALSE
    /\ before = 0
    /\ built = 1
    /\ hostedSizes = {DefaultSize}
    /\ hostedDraws = FALSE
    /\ display_profile = ""
    /\ repo_path = "repoA"
    /\ sys_argv = <<"app.py">>
    /\ cwd = LaunchDir
    /\ sys_modules = [shim |-> TRUE, mido |-> "stub", hotspot |-> "noop"]
    /\ hostedHotspot = TRUE
    /\ made = [repo |-> "repoA", profile |-> ""]
    /\ native_size = DefaultSize
    /\ size = DefaultSize
    /\ pixels = [i \in 1..MaxInstances |-> 0]
    /\ held = [obj |-> 0, px |-> 0]
    /\ result = NoResult
    /\ out = <<>>
    /\ GpioInit

WatcherNext ==
    \/ Start
    \/ StopRequest
    \/ StopObserver
    \/ StopJoin
    \/ \E p \in Paths : OnEvent(p)
    \/ \E t \in Threads : LoopCheck(t)
    \/ \E t \in Threads : LoopWake(t)
    \/ \E t \in Threads : LoopClear(t)
    \/ \E t \in Threads : CallbackEnds(t)
    \/ Tick

\* One start(), then at most one stop().
WatcherSpecInit ==
    /\ BridgeAtRest
    /\ WatcherInit
    /\ startsLeft = 1
    /\ eventsLeft = MaxEvents

WatcherSpec == WatcherSpecInit /\ [][WatcherNext]_vars

\* The watcher is restarted after a stop: every start() creates a flush loop.
RestartSpecInit ==
    /\ BridgeAtRest
    /\ WatcherInit
    /\ startsLeft = MaxThreads
    /\ eventsLeft = MaxEvents

RestartSpec == RestartSpecInit /\ [][WatcherNext]_vars

----------------------------------------------------------------------------
\* What the watcher observes.  A path is the sequence of its components
\* below the repository root.

\* watch_paths, app.py:291-297
WatchPaths == {<<"config", "menu.xml">>, <<"config", "settings.xml">>,
               <<"config", "default_settings.xml">>, <<"fonts">>, <<"assets">>}

\* The repository explored: its directories and its files.  It has no
\* assets directory and no default_settings.xml, and a file in config/ that
\* is no watch target.
RepoDirs == {<<"config">>, <<"fonts">>, <<"lib">>}
RepoFiles == {<<"config", "menu.xml">>, <<"config", "settings.xml">>,
              <<"config", "notes.txt">>, <<"fonts", "FreeSansBold.ttf">>,
              <<"lib", "menulcd.py">>}

\* Path.parent
parent(p) == SubSeq(p, 1, Len(p) - 1)

\* p lies under directory d.
under(p, d) == Len(p) > Len(d) /\ SubSeq(p, 1, Len(d)) = d

\* RepoWatcher.start, lines 43-49: the watch scheduled for target p, none if
\* p does not exist; a directory is watched recursively, a file through its
\* parent directory, not recursively.
schedule(p) ==
    IF p \in RepoDirs THEN {[at |-> p, recursive |-> TRUE]}
    ELSE IF p \in RepoFiles THEN {[at |-> parent(p), recursive |-> FALSE]}
    ELSE {}

\* The watches of a started Observer.
Watches == UNION {schedule(p) : p \in WatchPaths}

\* The Observer reports an event on path p to the handler of watch w.
reports(w, p) == IF w.recursive THEN under(p, w.at) ELSE parent(p) = w.at

\* _Handler.on_any_event, lines 16-21: every path reported goes to _on_event.
OnAnyEvent(p) ==
    /\ \E w \in Watches : reports(w, p)
    /\ OnEvent(p)

TargetNext ==
    \/ Start
    \/ StopRequest
    \/ StopObserver
    \/ StopJoin
    \/ \E p \in RepoFiles \cup RepoDirs : OnAnyEvent(p)
    \/ \E t \in Threads : LoopCheck(t)
    \/ \E t \in Threads : LoopWake(t)
    \/ \E t \in Threads : LoopClear(t)
    \/ \E t \in Threads : CallbackEnds(t)
    \/ Tick

TargetSpec == WatcherSpecInit /\ [][TargetNext]_vars

\* The watcher with callbacks that may raise, under fair scheduling: time
\* passes, every live flush loop takes its next step, and every on_change
\* call ends.
LiveInit ==
    /\ BridgeAtRest
    /\ WatcherInit
    /\ startsLeft = 1
    /\ eventsLeft = 3

LiveNext ==
    \/ WatcherNext
    \/ \E t \in Threads : CallbackRaises(t)
    \/ \E t \in Threads : ExceptLogged(t)
    \/ \E t \in Threads : CallbackEscapes(t)

Fairness ==
    /\ WF_vars(Tick)
    /\ \A t \in Threads :
          /\ WF_vars(LoopCheck(t))
          /\ WF_vars(LoopWake(t))
          /\ WF_vars(LoopClear(t))
          /\ WF_vars(CallbackEnds(t) \/ CallbackRaises(t) \/ CallbackEscapes(t))
          /\ WF_vars(ExceptLogged(t))

LiveSpec == LiveInit /\ [][LiveNext]_vars /\ Fairness

\* The owner calls start() and stop() in any state of the watcher, also when
\* the call has nothing to do; the watcher is started at most twice.
LifeInit ==
    /\ BridgeAtRest
    /\ WatcherInit
    /\ startsLeft = 2
    /\ eventsLeft = 1

LifeNext ==
    \/ WatcherNext
    \/ StartWhileWatching
    \/ StopWhileIdle
    \/ Returned

LifeSpec == LifeInit /\ [][LifeNext]_vars

\* The application: MainWindow starts its watcher once (app.py:298-299),
\* stops it in closeEvent, and drives the Bridge from the UI thread.
AppInit ==
    /\ BridgeAtRest
    /\ WatcherInit
    /\ startsLeft = 1
    /\ eventsLeft = MaxEvents

AppNext ==
    \/ WatcherNext
    \/ \E op \in UiOps : UiBegins(op)
    \/ UiEnds

AppSpec == AppInit /\ [][AppNext]_vars

----------------------------------------------------------------------------
\* The composite actions of the Bridge: hosted modules that may expose a
\* go-to-root method, an encoder method, the generic key handler and
\* fallbacks of back, down and up.

HomeNames == {"home", "encoder", "handle_key", "button_back", "button_down", "button_up"}

HomeInit ==
    /\ BridgeInit(HomeNames, {DefaultSize}, FALSE)
    /\ WatcherInit
    /\ startsLeft = 0
    /\ eventsLeft = 0

HomeNext ==
    \/ ActionHome
    \/ \E d \in Deltas : ActionEncoder(d)
    \/ \E a \in {"action_back", "action_down", "action_up"} : NavAction(a)
    \/ ReloadFails
    \/ ReloadOk
    \/ PopErrors

HomeSpec == HomeInit /\ [][HomeNext]_vars

----------------------------------------------------------------------------
\* Rendering: hosted modules with render methods on the instance and on its
\* nested LCD object.

RenderingNames == {"render", "update", "renderMenu", "LCD.display", "LCD.LCD_Show"}

RenderInit ==
    /\ BridgeInit(RenderingNames, {DefaultSize}, FALSE)
    /\ WatcherInit
    /\ startsLeft = 0
    /\ eventsLeft = 0

RenderNext ==
    \/ Step
    \/ ReloadFails
    \/ ReloadOk
    \/ PopErrors

RenderSpec == RenderInit /\ [][RenderNext]_vars

----------------------------------------------------------------------------
\* The status panel next to the hot reload (one watcher start).

StatusInit ==
    /\ BridgeAtRest
    /\ WatcherInit
    /\ startsLeft = 1
    /\ eventsLeft = MaxEvents

StatusNext ==
    \/ Start
    \/ StopRequest
    \/ StopObserver
    \/ StopJoin
    \/ \E p \in Paths : OnEvent(p)
    \/ \E t \in Threads : LoopCheck(t)
    \/ \E t \in Threads : LoopWake(t)
    \/ \E t \in Threads : LoopClear(t)
    \/ \E t \in Threads, c \in Constructions : HotReload(t, c[1], c[2])
    \/ Tick
    \/ PopCopy
    \/ PopClear

StatusSpec == StatusInit /\ [][StatusNext]_vars

----------------------------------------------------------------------------
\* The pin emulator on its own.  GpioSpec explores the edge-callback registry
\* with every kind of callback; PinSpec explores the pin records next to a
\* registry of one kind of callback.

GpioSpecInit ==
    /\ BridgeAtRest
    /\ WatcherInit
    /\ startsLeft = 0
    /\ eventsLeft = 0

GpioNext ==
    \/ \E c \in Channels, e \in {RISING, FALLING, BOTH}, cb \in Callbacks :
          AddEventDetect(c, e, cb)
    \/ \E c \in Channels : RemoveEventDetect(c)
    \/ \E c \in Channels : Cleanup(c)
    \/ CleanupAll
    \/ \E c \in Channels : SimulateEdge(c)

GpioSpec == GpioSpecInit /\ [][GpioNext]_vars

PinNext ==
    \/ \E c \in Channels, m \in {GPIO_IN, GPIO_OUT}, i \in {-1, LOW, HIGH} : Setup(c, m, i)
    \/ \E c \in Channels, v \in {LOW, HIGH} : Output(c, v)
    \/ \E c \in Channels : AddEventDetect(c, FALLING, [arity |-> "one", body |-> "returns"])
    \/ \E c \in Channels : RemoveEventDetect(c)
    \/ \E c \in Channels : Cleanup(c)
    \/ CleanupAll

PinSpec == GpioSpecInit /\ [][PinNext]_vars

----------------------------------------------------------------------------
\* Claims about the Bridge (specification Spec).

DispatchOps == NavActions \cup {"action_home", "action_encoder", "step", "get_frame"}

\* The names of a navigation action's resolution list the instance exposes.
ExposedCandidates(a) == {i \in DOMAIN Resolution(a) : Resolution(a)[i] \in exposes}

\* C1: a reload whose reconstruction fails propagates the exception and
\* leaves the Bridge without the instance that was live before the call.
C1_FailedReloadDropsInstance ==
    (lastOp = "reload" /\ built = 0) => (propagated /\ instance # before)

\* C2: a navigation action on an instance that exposes at least one name of
\* its resolution list invokes exactly one candidate, the highest-priority
\* one the instance exposes, whether or not the handlers raise.
C2_ExactlyOneCandidate ==
    (lastOp \in NavActions /\ ExposedCandidates(lastOp) # {}) =>
        /\ Len(calls) = 1
        /\ \A i \in ExposedCandidates(lastOp) :
              (\A j \in ExposedCandidates(lastOp) : i <= j) =>
                  calls[1][2] = Resolution(lastOp)[i]

\* C3: an action call returns normally to its caller even when the hosted
\* handler it invokes raises; the failure is logged, never propagated.
C3_ActionsNeverPropagate ==
    lastOp \in NavActions \cup {"action_home", "action_encoder"} => ~propagated

\* C4: when the instance exposes none of an action's candidates and no
\* handle_key, the call completes without raising and the dropped action is
\* recorded in the error log the next pop_errors() returns.
C4_DroppedActionRecorded ==
    (lastOp \in NavActions /\ ExposedCandidates(lastOp) = {}) =>
        (~propagated /\ pushed # <<>> /\ errors # <<>>)

\* C10: the Bridge always refers to exactly one instance, the one most
\* recently constructed, and every hosted call made by step(), get_frame()
\* and the actions goes to that instance: after a successful reload none
\* goes to the previous instance.
C10_DispatchToNewInstance ==
    /\ instance = nextId - 1
    /\ instance # 0
    /\ lastOp \in DispatchOps => \A i \in DOMAIN calls : calls[i][1] = nextId - 1
    /\ (lastOp = "reload" /\ ~propagated) => (instance = built /\ instance # before)

\* A successful reload replaced instance 1, and an operation then reached
\* a method of the new instance.
C10_Witness ==
    /\ lastOp \in DispatchOps
    /\ nextId = 3
    /\ calls # <<>>
    /\ calls[1][1] = 2

\* --- Frames and captures (specification FrameSpec) ---

\* C11: get_frame() never raises; once a get_frame() call has returned a
\* frame, every later call returns a frame, also when the extraction yields
\* nothing; and while no frame was ever obtained and the extraction yields
\* nothing, it returns none.
C11_LastFrameRetained ==
    [][lastOp' = "get_frame" =>
          /\ ~propagated'
          /\ held.obj # 0 => result'.frame # 0
          /\ (last_frame = 0 /\ ~extract_frame(Current).ret) => result'.frame = 0]_vars

\* get_frame() returned the remembered frame of a replaced instance while the
\* extraction on the instance in place yielded nothing.
C11_Witness ==
    /\ lastOp = "get_frame"
    /\ ~result.ret
    /\ result.frame # 0
    /\ result.frame # instance

\* C12: a frame returned by get_frame() is a copy: its content stays what it
\* was when it was returned, whatever the Bridge and the hosted module do
\* afterwards.
C12_ReturnedFrameIsCopy == held.obj # 0 => pixels[held.obj] = held.px

\* C14: snapshot_png() with no remembered frame and an instance that yields
\* none raises BridgeError and writes no image file.
C14_SnapshotWithoutFrame ==
    (lastOp = "snapshot_png" /\ last_frame = 0) =>
        (propagated /\ result.exc = "BridgeError" /\ result.wrote = "")

C14_Witness == lastOp = "snapshot_png" /\ last_frame = 0 /\ exposes # {}

\* C15 (for a frame rate fps > 0): record_gif(seconds, fps) against a hosted
\* module that never yields a frame raises BridgeError and writes no GIF.
C15_RecordWithoutFrame ==
    (lastOp = "record_gif" /\ result.nums[2] > 0 /\ ~extract_frame(Current).ret) =>
        (propagated /\ result.exc = "BridgeError" /\ result.wrote = "")

\* --- Configuration (specification ConfigSpec) ---

\* C13: set_display_profile(p) with an unsupported p raises BridgeError
\* before any mutation: profile, repository, instance, native size and error
\* log are unchanged and no reconstruction is started.
C13_InvalidProfileRejected ==
    [][(lastOp' = "set_display_profile" /\ result'.arg \notin ValidProfiles) =>
          /\ propagated' /\ result'.exc = "BridgeError"
          /\ calls' = <<>> /\ built' = 0
          /\ UNCHANGED <<display_profile, repo_path, instance, exposes, raises,
                         native_size, errors, nextId>>]_vars

\* An unsupported profile was refused after a supported one had been set.
C13_Witness ==
    /\ lastOp = "set_display_profile"
    /\ result.arg \notin ValidProfiles
    /\ display_profile # ""

C23_PopReturnsWhatItClears ==
    (lastOp = "pop_errors" /\ main = "idle") =>
        /\ result.popped = result.cleared
        /\ errors = <<>>

----------------------------------------------------------------------------
\* Claims about the composite actions (HomeSpec).

\* The number of times the Bridge's action method a was entered by the last
\* operation.
Performed(a) == Cardinality({i \in DOMAIN result.acts : result.acts[i] = a})

\* The hosted methods the last operation called.
Called == {calls[i][2] : i \in DOMAIN calls}

\* C18: action_home() on an instance that exposes a dedicated go-to-root
\* method invokes it and does not invoke the back action; on an instance that
\* exposes none, the back action is invoked exactly 5 times.
C18_HomeOrFiveBacks ==
    lastOp = "action_home" =>
        IF Range(HomeCandidates) \cap exposes # {}
        THEN /\ Called \cap Range(HomeCandidates) # {}
             /\ Performed("action_back") = 0
        ELSE Performed("action_back") = HomeBackRepeats

\* C19: action_encoder(delta) on an instance that exposes a dedicated encoder
\* method invokes it with delta and performs no up or down action; on an
\* instance that exposes none it performs exactly |delta| down actions for
\* delta > 0, exactly |delta| up actions for delta < 0, and nothing for
\* delta = 0.
C19_EncoderOrSteps ==
    lastOp = "action_encoder" =>
        LET delta == result.nums[1] IN
        IF Range(EncoderCandidates) \cap exposes # {}
        THEN /\ \E i \in DOMAIN calls : /\ calls[i][2] \in Range(EncoderCandidates)
                                        /\ calls[i][3] = DeltaArg(delta)
             /\ Performed("action_down") = 0
             /\ Performed("action_up") = 0
        ELSE /\ Performed("action_down") = (IF delta > 0 THEN delta ELSE 0)
             /\ Performed("action_up") = (IF delta < 0 THEN -delta ELSE 0)
             /\ delta = 0 => calls = <<>>

----------------------------------------------------------------------------
\* Claims about the pin emulator (GpioSpec).

\* C17: simulate_edge(channel) runs the callback registered for the channel
\* exactly once, whatever its signature and whether or not its body raises,
\* and runs nothing when the channel has no callback.
C17_CallbackRunsOnce ==
    simulated.channel # 0 =>
        IF simulated.registered THEN simulated.runs = 1
        ELSE simulated.runs = 0 /\ simulated.attempts = <<>>

\* The four registries of the emulator.
Registries == <<gpio_callbacks, gpio_edges, gpio_pin_state, gpio_pin_dir>>

\* Channel c has the same record (or none) in registry d before and after.
SameRecord(d, e, c) ==
    /\ c \in DOMAIN d <=> c \in DOMAIN e
    /\ c \in DOMAIN d => d[c] = e[c]

\* C22: cleanup(c) removes the direction, level, edge callback and edge kind
\* of channel c and leaves the records of every other channel as they were;
\* cleanup() removes the records of all channels; input(c) is LOW for a
\* channel that was never given a level or was cleared since, and otherwise
\* the level most recently given to c by output or by setup's initial value.
C22_CleanupAndInput ==
    /\ [](\A c \in Channels : input(c) = IF written[c] = -1 THEN LOW ELSE written[c])
    /\ [][\A c \in Channels : gpio_op' = <<"cleanup", c>> =>
             \A i \in 1..4 :
                /\ c \notin DOMAIN Registries'[i]
                /\ \A o \in Channels \ {c} : SameRecord(Registries[i], Registries'[i], o)]_vars
    /\ [][gpio_op' = <<"cleanup", 0>> => \A i \in 1..4 : DOMAIN Registries'[i] = {}]_vars

\* Channel 17 has just been cleared while channel 27 holds a direction, the
\* level HIGH, an edge callback and an edge kind.
C22_Witness ==
    /\ gpio_op = <<"cleanup", 17>>
    /\ \A i \in 1..4 : 27 \in DOMAIN Registries[i]
    /\ input(27) = HIGH
    /\ input(17) = LOW

----------------------------------------------------------------------------
\* Claims about the watcher (WatcherSpec, RestartSpec) and its wiring (AppSpec).

\* stop() has returned on a watcher that had been started.
StopReturned == ~is_running /\ main = "idle" /\ pc[1] # "unborn"

\* The flush loop created by the most recent start().
LastThread == CHOOSE t \in Threads :
                 /\ pc[t] # "unborn"
                 /\ \A u \in Threads : u > t => pc[u] = "unborn"

NoDuplicates(q) == \A i, j \in DOMAIN q : i # j => q[i] # q[j]

\* C20: the watcher is Idle or Watching.  A start() on a running watcher
\* and a stop() on an idle one return without changing anything: no
\* notification source and no flush loop is created or ended and the pending
\* buffer is kept.  is_running becomes true only when a start() completes and
\* false only when a stop() completes, and it is true after every completed
\* start() and false after every completed stop().
C20_IdleWatching ==
    [][/\ (main = "idle" /\ main' = "start_return") => (is_running /\ UNCHANGED lifecycle)
       /\ (main = "idle" /\ main' = "stop_return") => (~is_running /\ UNCHANGED lifecycle)
       /\ (main \in {"start_return", "stop_return"} /\ main' = "idle") => UNCHANGED lifecycle
       /\ (~is_running /\ is_running') =>
             (startsLeft' = startsLeft - 1 /\ main = "idle" /\ main' = "idle")
       /\ (is_running /\ ~is_running') => (main = "stop_join" /\ main' = "idle")
       /\ startsLeft' # startsLeft => is_running'
       /\ (main = "stop_join" /\ main' = "idle") => ~is_running'
      ]_vars

\* The watcher was started, stopped and started again, has a path pending,
\* and start() has just been called on it once more.
C20_Witness ==
    /\ main = "start_return"
    /\ is_running
    /\ thr = 2
    /\ changed # <<>>
    /\ pc[1] = "done"

\* C21: an exception raised by on_change does not end the flush loop, which
\* ends only after stop() is requested; and once a callback has raised (with
\* no path left undelivered), every path reported afterwards while the watcher
\* runs is eventually handed to a later callback, unless stop() is requested
\* first.
C21_WatchingSurvivesCallbackError ==
    /\ [][\A t \in Threads : (pc[t] # "done" /\ pc'[t] = "done") => stopFlag]_vars
    /\ \A t \in Threads, p \in Paths :
          []((pc[t] = "except" /\ awaiting = {}) =>
                [](p \in awaiting => <>(p \notin awaiting \/ stopFlag)))

\* The flush-loop threads that are alive.
Alive == {t \in Threads : pc[t] \notin {"unborn", "done"}}

\* C24: at most one flush-loop thread of the watcher is alive at any time,
\* and a loop other than the one the last start() created is not looping
\* again (it is at most finishing the callback it was in).
C24_OneFlushLoop ==
    /\ Cardinality(Alive) <= 1
    /\ \A t \in Alive : (thr # 0 /\ t # thr) => pc[t] = "callback"

\* C5 (upper bound of "exactly one callback per burst"): events that each
\* arrive less than the debounce interval after the previous one form one
\* burst, bursts are more than the debounce interval apart, and the watcher
\* never starts more callbacks than there were bursts.
C5_OneCallbackPerBurst == clean => callbacks <= bursts

\* C6: a hot reload (_on_repo_change calling bridge.reload() from the flush
\* loop) never runs while the UI thread is inside a Bridge operation, and no
\* UI-thread Bridge operation runs during it.
C6_ReloadSerialized == \A t \in Threads : HotReloading(t) => main \notin UiOps

\* C7: after stop() is requested on a running watcher, at most one further
\* on_change callback is started.
C7_AtMostOneAfterStop == stopFlag => cbAfterStop <= 1

C9_NoEventLost ==
    /\ awaiting \subseteq
          Range(changed) \cup UNION {Range(payload[t]) : t \in {u \in Threads : pc[u] = "clear"}}
    /\ \A t \in Threads : NoDuplicates(payload[t])

\* --- The process around a construction (specification LaunchSpec) ---

\* C25: on every construction and reload the hosted ArgumentParser is
\* instantiated while sys.argv holds the program name only, and sys.argv has
\* its original value again when the construction ends.
C25_ParserSeesProgramNameOnly ==
    /\ [](\A i \in DOMAIN result.steps :
            result.steps[i].at = "Parser" => Len(result.steps[i].argv) = 1)
    /\ [][sys_argv' = sys_argv]_vars

\* C26: after set_repo(path) or set_display_profile(profile, reload=True),
\* returned or raised, repo_path and display_profile are the repository and
\* profile the instance in self.instance was constructed with.
C26_ConfigurationMatchesInstance ==
    lastOp \in {"set_repo", "set_display_profile"} =>
        made = [repo |-> repo_path, profile |-> display_profile]

\* The statements named, in this order, occur in walk w before position i.
RECURSIVE InOrderBefore(_, _, _)
InOrderBefore(names, w, i) ==
    IF names = <<>> THEN TRUE
    ELSE \E j \in 1..(i - 1) :
            /\ w[j].at = names[Len(names)]
            /\ InOrderBefore(SubSeq(names, 1, Len(names) - 1), w, j)

\* C32: on every construction path the initializer is constructed after, in
\* this order, the registration of the mido stub (the pin shim being
\* registered already), the fresh load of lib.platform, the replacement of
\* its Hotspot and the (re)load of lib.component_initializer; it is never
\* constructed with the unpatched Hotspot or without the shim in sys.modules.
C32_ShimsBeforeInitializer ==
    \A i \in DOMAIN result.steps : result.steps[i].at = "CI" =>
        /\ result.steps[i].mods.shim
        /\ result.steps[i].mods.mido = "stub"
        /\ result.steps[i].mods.hotspot = IF hostedHotspot THEN "noop" ELSE "absent"
        /\ InOrderBefore(<<"install_mido_stub", "reload lib.platform", "patch Hotspot",
                           "reload lib.component_initializer">>, result.steps, i)
        /\ \A j \in 1..i :
              /\ result.steps[j].mods.shim
              /\ result.steps[j].at = "patch Hotspot" =>
                    result.steps[j].mods.hotspot # "noop"

\* A reload constructed the initializer on a hosted module that has a Hotspot.
C32_Witness ==
    /\ lastOp = "reload"
    /\ hostedHotspot
    /\ \E i \in DOMAIN result.steps :
          result.steps[i].at = "CI" /\ result.steps[i].mods.hotspot = "noop"

\* C30: _import_and_create leaves the working directory as it found it, on
\* return and on every exception, and every statement after the directory
\* switch runs in the repository root.
C30_WorkingDirectoryRestored ==
    /\ [](\A i \in DOMAIN result.steps :
            i > 2 => result.steps[i].cwd = repo_path)
    /\ [](cwd = LaunchDir)
    /\ [][cwd' = cwd]_vars

\* A construction for another repository raised after the directory switch.
C30_Witness ==
    /\ lastOp = "set_repo"
    /\ propagated
    /\ repo_path = "repoB"
    /\ Len(result.steps) > 2
    /\ cwd = LaunchDir

\* --- Size and frames across a reload (specifications ConfigSpec, FrameSpec) ---

\* C27: when the probe of a construction or reload (one step(), then frame
\* extraction) obtains no frame, native_size() afterwards is the default
\* (320, 240); when it obtains one, native_size() is that frame's size.
C27_DefaultSizeWithoutFrame ==
    (lastOp \in {"init", "reload", "set_repo", "set_display_profile"} /\ built # 0) =>
        native_size = IF extract_frame(Current).ret THEN size ELSE DefaultSize

\* C28: after a successful reload() the frame get_frame() returns, and the
\* frame snapshot_png() and record_gif() save, comes from the instance the
\* Bridge holds, never from the one the reload discarded.
C28_NoFrameOfDiscardedInstance ==
    /\ (lastOp = "get_frame" /\ result.frame # 0) => result.frame = instance
    /\ (lastOp \in {"snapshot_png", "record_gif"} /\ result.wrote # "") =>
          last_frame = instance

\* --- Flushes of one watcher (specification RestartSpec) ---

\* C29: every on_change invocation carries a non-empty payload and starts at
\* least the debounce interval after the flush time of the invocation before
\* it: a running invocation has a payload, and of two invocations running at
\* once (the later started after the flush of the earlier) one was flushed
\* at least the debounce interval ago.
C29_FlushesDebounced ==
    /\ \A t \in Threads : pc[t] = "callback" => payload[t] # <<>>
    /\ \A t, u \in Threads :
          (t # u /\ pc[t] = "callback" /\ pc[u] = "callback") =>
              (sinceFlush[t] >= DebounceMs \/ sinceFlush[u] >= DebounceMs)

\* --- What is delivered (specification TargetSpec) ---

\* p is a registered watch target or lies under a registered directory.
Registered(p) ==
    \/ p \in WatchPaths
    \/ \E d \in WatchPaths \cap RepoDirs : under(p, d)

\* C31: every path in an on_change payload is a registered watch target or
\* lies under a registered directory target; a change to a sibling of a
\* registered file target triggers no callback.
C31_OnlyRegisteredPathsDelivered ==
    \A t \in Threads : pc[t] = "callback" =>
        \A i \in DOMAIN payload[t] : Registered(payload[t][i])

\* --- Rendering (specification RenderSpec) ---

\* The render candidates in the order step() tries them, and those of them
\* the held instance exposes.
Candidates == RenderNames \o LcdRenderNames
IsExposed(n) == n \in exposes
Tried == SelectSeq(Candidates, IsExposed)

\* C33: step() never raises and does nothing without an instance; otherwise
\* it calls the exposed render candidates of the instance, then of its LCD
\* object, in the fixed order and stops at the first that returns: no call
\* but the last returned, every candidate is tried if all raise, and each
\* candidate that raised left exactly one entry in the error log.
C33_StepTriesInOrder ==
    /\ \A z \in Shapes(RenderingNames) : step(Host(0, z)) = Nothing
    /\ lastOp = "step" =>
          /\ ~propagated
          /\ Len(calls) <= Len(Tried)
          /\ \A i \in DOMAIN calls : calls[i] = <<instance, Tried[i], "">>
          /\ \A i \in 1..(Len(calls) - 1) : Tried[i] \in raises
          /\ (calls = <<>> \/ Tried[Len(calls)] \in raises) => Len(calls) = Len(Tried)
          /\ pushed = [i \in 1..Len(pushed) |-> Tried[i] \o "() error"]
          /\ Len(pushed) = Cardinality({i \in DOMAIN calls : Tried[i] \in raises})
          /\ Len(errors) >= Len(pushed)
          /\ SubSeq(errors, Len(errors) - Len(pushed) + 1, Len(errors)) = pushed

\* A step whose instance-level render raised and whose LCD method returned.
C33_Witness ==
    /\ lastOp = "step"
    /\ calls = << <<instance, "render", "">>, <<instance, "LCD.display", "">> >>
    /\ pushed = <<"render() error">>
    /\ result.ret

====
